---- MODULE Spec2Model ----
(***************************************************************************)
(* LAMaS loan-application workflow: the status transition table of the     *)
(* frontend (StatusTransitionDialog.tsx), the transition executor and the  *)
(* audit-note ledger of the backend service, the AddNoteDialog, and the    *)
(* CreditFlow analysis endpoint (analyze_loan_with_creditflow).            *)
(***************************************************************************)
EXTENDS Integers, Sequences, FiniteSets, TLC

\* ------------------------------------------------------------------ bounds
MaxClock == 6        \* number of commits that read now()
MaxNotes == 2        \* rows in the note ledger of one application
MaxCommits == 3      \* commits after which the browser starts no mutation

\* --------------------------------------------------------------- constants
Null == -1                       \* datetime | None = None
LoanId == 1                      \* id the database assigns to the application
MissingId == LoanId + 1          \* an id no row has
Ids == {LoanId, MissingId}       \* ids a request may name
RiskCatalog == {1}               \* ids of the credit_risks rows
RiskIds == {1, 2}                \* risk ids a request may name
Clients == {"c1", "c2"}          \* API callers (browser tabs, users)
RequestedAmount == 50000         \* loan_app.requested_amount
SuggestedAmount == 40000
EscalationThreshold == 50000
LargeAmount == EscalationThreshold + 10000
ConfidenceThreshold == 85
HighConfidence == ConfidenceThreshold + 5
LowConfidence == ConfidenceThreshold - 35         \* a suggested_amount of the scorer

LoanStatus ==
  {"received", "verified", "assigned", "analyzed", "approved", "rejected", "archived"}

\* ------------------------------------------------------------------- texts
Whitespace == {" ", "\t", "\n"}

\* the texts typed into the AddNoteDialog or posted to the notes endpoint
Texts ==
  { << >>, <<" ">>, <<" ", " ", " ">>, <<"\t", "\n">>,
    <<"o", "k">>, <<" ", "o", "k", " ">> }

RECURSIVE trimStart(_)
trimStart(t) ==
  IF t = <<>> THEN <<>>
  ELSE IF Head(t) \in Whitespace THEN trimStart(Tail(t)) ELSE t

RECURSIVE trimEnd(_)
trimEnd(t) ==
  IF t = <<>> THEN <<>>
  ELSE IF t[Len(t)] \in Whitespace THEN trimEnd(SubSeq(t, 1, Len(t) - 1)) ELSE t

\* the texts direct API callers send
ShortTexts == {<< >>, <<" ">>, <<"o", "k">>}

\* the optional note of a status request: absent, or a text
NoteInputs ==
  {[hasNote |-> FALSE, note |-> << >>]} \cup
  {[hasNote |-> TRUE, note |-> t] : t \in {<<" ">>, <<"o", "k">>}}

\* String.prototype.trim
trim(t) == trimEnd(trimStart(t))

\* ------------------------------------------------- status transition table
\* the entries of nextStatusMap
StatusOptions(s) ==
  CASE s = "received" -> << [target |-> "verified", label |-> "Verify Application"],
                            [target |-> "rejected", label |-> "Reject Application"] >>
    [] s = "verified" -> << [target |-> "assigned", label |-> "Assign to Analyst"],
                            [target |-> "rejected", label |-> "Reject Application"] >>
    [] s = "assigned" -> << [target |-> "analyzed", label |-> "Mark as Analyzed"],
                            [target |-> "rejected", label |-> "Reject Application"] >>
    [] s = "analyzed" -> << [target |-> "approved", label |-> "Approve Loan"],
                            [target |-> "rejected", label |-> "Reject Application"] >>
    [] s = "approved" -> << [target |-> "archived", label |-> "Archive Approved Loan"] >>
    [] s = "rejected" -> << [target |-> "archived", label |-> "Archive Rejected Application"] >>
    [] s = "archived" -> << >>

\* the table with archived offered from received as well
nextStatusMap_AnyArchive ==
  [s \in LoanStatus |->
    IF s = "received"
    THEN StatusOptions(s) \o << [target |-> "archived", label |-> "Archive"] >>
    ELSE StatusOptions(s)]

\* the table with an approved application sent back to analysis
nextStatusMap_Reopen ==
  [s \in LoanStatus |->
    IF s = "approved"
    THEN StatusOptions(s) \o << [target |-> "analyzed", label |-> "Reopen"] >>
    ELSE StatusOptions(s)]

\* the table with archived offered from archived
nextStatusMap_ReArchive ==
  [s \in LoanStatus |->
    IF s = "archived"
    THEN << [target |-> "archived", label |-> "Archive"] >>
    ELSE StatusOptions(s)]

\* the table with verified offered from verified
nextStatusMap_SelfLoop ==
  [s \in LoanStatus |->
     IF s = "verified"
     THEN StatusOptions(s) \o <<[target |-> "verified", label |-> "Verify Application"]>>
     ELSE StatusOptions(s)]

nextStatusMap == [s \in LoanStatus |-> StatusOptions(s)]

\* nextStatusMap[currentStatus] || []
nextOptions(currentStatus) ==
  IF currentStatus \in DOMAIN nextStatusMap THEN nextStatusMap[currentStatus] ELSE << >>

\* the backend table the frontend matrix mirrors
allowed_next_states(current) ==
  {nextOptions(current)[i].target : i \in 1..Len(nextOptions(current))}

\* ------------------------------------------------------------------- state
VARIABLES
  loans,      \* loan_applications rows: id -> row
  analyses,   \* creditflow_analyses rows
  clock,      \* the value now() returns next
  treq,       \* the PATCH /{id}/status request in flight
  ereq,       \* POST /{id}/analyze calls waiting for CreditFlow, per client
  note,       \* AddNoteDialog: text of the textarea
  addNote,    \* AddNoteDialog: the useAddLoanNote mutation
  dlg,        \* StatusTransitionDialog: its props and its state
  filters,    \* LoanListClient: the filters of the list query
  search,     \* LoanFilters: text of the search box
  timer,      \* LoanFilters: the debounce timer and what its callback captured
  queries,    \* the query cache: the detail query of the application, the lists
  last        \* the request handled last and its response

vars ==
  <<loans, analyses, clock, treq, ereq, note, addNote, dlg, filters, search, timer,
    queries, last>>
list == <<filters, search, timer>>
ui == <<note, addNote, dlg, list>>

NoRequest == [active |-> FALSE]

\* useLoanApplication(id).data before the first answer
NoData == [status |-> "none", notes |-> {}, requested_amount |-> Null]

\* useLoanApplications(filters).data before the first answer
NoList == [loaded |-> FALSE, rows |-> {}]

\* a status filter that is undefined, shown as "all"
NoStatus == "undefined"

\* useState<LoanApplicationFilters>({ page: 1, per_page: 20 })
InitialFilters == [page |-> 1, per_page |-> 20, status |-> NoStatus, customer_id |-> Null]
NoResponse == [op |-> "none", code |-> 0]

Init ==
  /\ loans = << >>
  /\ analyses = {}
  /\ clock = 0
  /\ treq = NoRequest
  /\ ereq = [c \in Clients |-> NoRequest]
  /\ note = << >>
  /\ addNote = [isPending |-> FALSE, note |-> << >>]
  /\ dlg = [open |-> FALSE, currentStatus |-> "none", targetStatus |-> "", note |-> << >>]
  /\ filters = InitialFilters
  /\ search = << >>
  /\ timer = [pending |-> TRUE, filters |-> InitialFilters]
  /\ queries = [detail |-> [data |-> NoData, isInvalidated |-> FALSE],
                lists |-> [data |-> NoList, isInvalidated |-> FALSE]]
  /\ last = NoResponse

\* a record created with the defaults of is_new and is_active swapped
NewLoan_Inactive(now) ==
  [ status |-> "received",
    changed_status_at |-> Null,
    is_answered |-> FALSE, is_approved |-> FALSE, is_rejected |-> FALSE,
    is_archived |-> FALSE, is_new |-> FALSE, is_active |-> FALSE,
    approved_at |-> Null, rejected_at |-> Null, archived_at |-> Null,
    created_at |-> now,
    requested_amount |-> RequestedAmount,
    analyzed_at |-> Null, approved_amount |-> Null, recommended_amount |-> Null,
    notes |-> {} ]

\* ------------------------------------------------------------ loan creation
NewLoan(now) ==
  [ status |-> "received",
    changed_status_at |-> Null,
    is_answered |-> FALSE, is_approved |-> FALSE, is_rejected |-> FALSE,
    is_archived |-> FALSE, is_new |-> TRUE, is_active |-> TRUE,
    approved_at |-> Null, rejected_at |-> Null, archived_at |-> Null,
    created_at |-> now,
    requested_amount |-> RequestedAmount,
    analyzed_at |-> Null, approved_amount |-> Null, recommended_amount |-> Null,
    notes |-> {} ]

\* POST /api/v1/loan-applications/
CreateLoan ==
  /\ LoanId \notin DOMAIN loans
  /\ clock < MaxClock
  /\ loans' = (LoanId :> NewLoan(clock))
  /\ clock' = clock + 1
  /\ last' = [op |-> "create", code |-> 201]
  /\ UNCHANGED <<analyses, treq, ereq, ui, queries>>

\* POST /api/v1/loan-applications/ with the amount of the detail
CreateLoanWith(amount) ==
  /\ LoanId \notin DOMAIN loans
  /\ clock < MaxClock
  /\ loans' = (LoanId :> [NewLoan(clock) EXCEPT !.requested_amount = amount])
  /\ clock' = clock + 1
  /\ last' = [op |-> "create", code |-> 201]
  /\ UNCHANGED <<analyses, treq, ereq, ui, queries>>

\* ----------------------------------------------------------- query cache
\* loanApplicationsApi.getById(id): what the detail page shows of the answer
getById(id) ==
  [status |-> loans[id].status, notes |-> loans[id].notes,
   requested_amount |-> loans[id].requested_amount]

\* loanApplicationsApi.list(filters): the rows of the table
listLoans ==
  [loaded |-> TRUE,
   rows |-> {[id |-> id, status |-> loans[id].status,
              requested_amount |-> loans[id].requested_amount,
              is_active |-> loans[id].is_active] : id \in DOMAIN loans}]

\* qc.invalidateQueries for the keys named
invalidateQueries(q, keys) ==
  [k \in DOMAIN q |-> IF k \in keys THEN [q[k] EXCEPT !.isInvalidated = TRUE] ELSE q[k]]

\* --------------------------------------------------------- note ledger
NoteRow(loan, text, now) ==
  [id |-> Cardinality(loan.notes) + 1, note |-> text, created_at |-> now]

AddNoteRow(loan, text, now) ==
  [loan EXCEPT !.notes = @ \cup {NoteRow(loan, text, now)}]

\* the row created first among rows
Oldest(rows) ==
  CHOOSE r \in rows : \A q \in rows :
    \/ r.created_at < q.created_at
    \/ r.created_at = q.created_at /\ r.id <= q.id

RECURSIVE OrderByCreatedAt(_)
OrderByCreatedAt(rows) ==
  IF rows = {} THEN << >>
  ELSE LET first == Oldest(rows)
       IN <<first>> \o OrderByCreatedAt(rows \ {first})

\* list_notes(application_id): creation order, oldest first
list_notes(loan) == OrderByCreatedAt(loan.notes)

\* the timeline rendered newest first
NotesTimeline_NewestFirst(loan) ==
  LET notes == list_notes(loan)
  IN [i \in 1..Len(notes) |->
        [note |-> notes[Len(notes) + 1 - i].note,
         created_at |-> notes[Len(notes) + 1 - i].created_at]]

\* the timeline of the detail page: loan.notes.map(...) renders the text and
\* the creation time of every note, in the order received
NotesTimeline(loan) ==
  LET notes == list_notes(loan)
  IN [i \in 1..Len(notes) |->
        [note |-> notes[i].note, created_at |-> notes[i].created_at]]

\* NoteCreate validation: empty after trimming whitespace
NoteIsValid(text) == trim(text) # << >>

\* ---------------------------------------------------- transition executor
\* flag and timestamp sync of a transition to target at time now
SyncFlags(loan, target, now) ==
  [loan EXCEPT
    !.status = target,
    !.changed_status_at = now,
    !.is_new = FALSE,
    !.is_approved = IF target = "approved" THEN TRUE ELSE @,
    !.is_rejected = IF target = "rejected" THEN TRUE ELSE @,
    !.is_answered = IF target \in {"approved", "rejected"} THEN TRUE ELSE @,
    !.is_archived = IF target = "archived" THEN TRUE ELSE @,
    !.approved_at = IF target = "approved" /\ @ = Null THEN now ELSE @,
    !.rejected_at = IF target = "rejected" THEN now ELSE @,
    !.archived_at = IF target = "archived" THEN now ELSE @]

\* transition(application, target_state, optional_note) on success
transition(loan, target, hasNote, text, now) ==
  IF hasNote THEN AddNoteRow(SyncFlags(loan, target, now), text, now)
  ELSE SyncFlags(loan, target, now)

\* the application must exist
Found(id) == id \in DOMAIN loans

\* the outcome of validating a transition to target from status current
TransitionCode(id, target, current) ==
  IF ~Found(id) THEN 404
  ELSE IF target \notin allowed_next_states(current) THEN 422
  ELSE 200

\* the status the executor reads when it handles a request
CurrentStatus(id) == IF Found(id) THEN loans[id].status ELSE "none"

\* a request in flight on application id notes a transition that won the race
MarkRaced(r, id, prior) ==
  IF r.active /\ r.id = id THEN [r EXCEPT !.raced = @ \cup {prior}] ELSE r

\* the handler with the note written before the request is validated
TransitionStatus_NoteFirst(id, target, hasNote, text, current, raced, req) ==
  LET code == TransitionCode(id, target, current)
      prior == current
  IN
  /\ last' = [op |-> "transition", code |-> code, prior |-> prior, raced |-> raced]
  /\ IF code = 200
     THEN /\ clock < MaxClock
          /\ hasNote => Cardinality(loans[id].notes) < MaxNotes
          /\ loans' = [loans EXCEPT ![id] = transition(@, target, hasNote, text, clock)]
          /\ clock' = clock + 1
          /\ treq' = MarkRaced(req, id, prior)
     ELSE IF code = 422 /\ hasNote
     THEN /\ clock < MaxClock
          /\ Cardinality(loans[id].notes) < MaxNotes
          /\ loans' = [loans EXCEPT ![id] = AddNoteRow(@, text, clock)]
          /\ clock' = clock + 1
          /\ treq' = req
     ELSE /\ treq' = req
          /\ UNCHANGED <<loans, clock>>
  /\ UNCHANGED <<analyses, ereq, ui, queries>>

\* PATCH /{id}/status handled by the server as one unit: the request is
\* validated against current; req is what is left in flight afterwards
TransitionStatus(id, target, hasNote, text, current, raced, req) ==
  LET code == TransitionCode(id, target, current)
      prior == current
  IN
  /\ last' = [op |-> "transition", code |-> code, prior |-> prior, raced |-> raced]
  /\ IF code = 200
     THEN /\ clock < MaxClock
          /\ hasNote => Cardinality(loans[id].notes) < MaxNotes
          /\ loans' = [loans EXCEPT ![id] = transition(@, target, hasNote, text, clock)]
          /\ clock' = clock + 1
          /\ treq' = MarkRaced(req, id, prior)
     ELSE /\ treq' = req
          /\ UNCHANGED <<loans, clock>>
  /\ UNCHANGED <<analyses, ereq, ui, queries>>

\* a request that is sent and handled while another one may be in flight
PatchStatus(id, target, hasNote, text) ==
  TransitionStatus(id, target, hasNote, text, CurrentStatus(id), {}, treq)

\* a slow client issues PATCH /{id}/status; the request stays in flight
\* (code 0: no response yet); seen is the status its page showed
SendTransition(id, target, hasNote, text) ==
  /\ ~treq.active
  /\ treq' = [active |-> TRUE, id |-> id, status |-> target, hasNote |-> hasNote,
              note |-> text, seen |-> CurrentStatus(id), raced |-> {}]
  /\ last' = [op |-> "transition", code |-> 0, prior |-> "none", raced |-> {}]
  /\ UNCHANGED <<loans, analyses, clock, ereq, ui, queries>>

\* the request in flight validated against the status its sender saw
HandleTransitionStale ==
  /\ treq.active
  /\ TransitionStatus(treq.id, treq.status, treq.hasNote, treq.note,
                      treq.seen, treq.raced, NoRequest)

\* the server handles the request in flight
HandleTransition ==
  /\ treq.active
  /\ TransitionStatus(treq.id, treq.status, treq.hasNote, treq.note,
                      CurrentStatus(treq.id), treq.raced, NoRequest)

\* ------------------------------------------------------------ append_note
\* POST /{id}/notes: the body is validated before the application is looked up
AppendNoteCode(id, text) ==
  IF ~NoteIsValid(text) THEN 422
  ELSE IF ~Found(id) THEN 404
  ELSE 201

AppendNote(id, text) ==
  LET code == AppendNoteCode(id, text)
  IN
  /\ last' = [op |-> "append_note", code |-> code, text |-> text]
  /\ IF code = 201
     THEN /\ clock < MaxClock
          /\ Cardinality(loans[id].notes) < MaxNotes
          /\ loans' = [loans EXCEPT ![id] = AddNoteRow(@, text, clock)]
          /\ clock' = clock + 1
     ELSE UNCHANGED <<loans, clock>>

\* an API caller posts a note
PostNote(id, text) ==
  /\ AppendNote(id, text)
  /\ UNCHANGED <<analyses, treq, ereq, ui, queries>>

\* ---------------------------------------------------------- AddNoteDialog
\* a check of the empty string alone
NoteIsBlank_EmptyOnly(text) == text = << >>

\* !note.trim()
NoteIsBlank(text) == trim(text) = << >>

\* onChange of the textarea
setNote(text) ==
  /\ LoanId \in DOMAIN loans
  /\ note' = text
  /\ UNCHANGED <<loans, analyses, clock, treq, ereq, addNote, dlg, list, queries, last>>

\* a click on "Add Note", which is disabled while the note is blank or a
\* request is pending
handleAdd ==
  /\ LoanId \in DOMAIN loans
  /\ ~(NoteIsBlank(note) \/ addNote.isPending)
  /\ IF NoteIsBlank(note)
     THEN UNCHANGED addNote
     ELSE addNote' = [isPending |-> TRUE, note |-> note]
  /\ UNCHANGED <<loans, analyses, clock, treq, ereq, note, dlg, list, queries, last>>

\* the server answers the dialog's request; onSuccess of useAddLoanNote
\* invalidates the detail query and onSuccess of the dialog clears the
\* textarea
AddNoteSettled ==
  /\ addNote.isPending
  /\ AppendNote(LoanId, addNote.note)
  /\ addNote' = [isPending |-> FALSE, note |-> << >>]
  /\ note' = IF AppendNoteCode(LoanId, addNote.note) = 201 THEN << >> ELSE note
  /\ queries' = IF AppendNoteCode(LoanId, addNote.note) = 201
                THEN invalidateQueries(queries, {"detail"})
                ELSE queries
  /\ UNCHANGED <<analyses, treq, ereq, dlg, list>>

\* --------------------------------------------------- StatusTransitionDialog
\* useLoanApplication(loanId) delivers the application: the page renders the
\* dialog with currentStatus = loan.status
Refetch ==
  /\ LoanId \in DOMAIN loans
  /\ dlg' = [dlg EXCEPT !.currentStatus = loans[LoanId].status]
  /\ queries' = [queries EXCEPT
                   !.detail = [data |-> getById(LoanId), isInvalidated |-> FALSE]]
  /\ UNCHANGED <<loans, analyses, clock, treq, ereq, note, addNote, list, last>>

\* "Update Status" opens the dialog, "Cancel" and the overlay close it
setStatusOpen(open) ==
  /\ dlg.currentStatus # "none"
  /\ dlg' = [dlg EXCEPT !.open = open]
  /\ UNCHANGED <<loans, analyses, clock, treq, ereq, note, addNote, list, queries, last>>

\* the Select, rendered when nextOptions is not empty, offers nextOptions
setTargetStatus(v) ==
  /\ dlg.open
  /\ v \in {nextOptions(dlg.currentStatus)[i].target :
              i \in 1..Len(nextOptions(dlg.currentStatus))}
  /\ dlg' = [dlg EXCEPT !.targetStatus = v]
  /\ UNCHANGED <<loans, analyses, clock, treq, ereq, note, addNote, list, queries, last>>

\* onChange of the dialog's textarea
setStatusNote(text) ==
  /\ dlg.open
  /\ dlg' = [dlg EXCEPT !.note = text]
  /\ UNCHANGED <<loans, analyses, clock, treq, ereq, note, addNote, list, queries, last>>

\* transition.isPending: from mutate until the callbacks have run
transitionIsPending == treq # NoRequest

\* a click on "Confirm Update", disabled while no target is chosen or a
\* request is pending; the note is sent as note || undefined
handleTransition ==
  /\ dlg.open
  /\ ~(dlg.targetStatus = "" \/ transitionIsPending)
  /\ dlg.targetStatus # ""
  /\ SendTransition(LoanId, dlg.targetStatus, dlg.note # << >>, dlg.note)

\* the server handles the dialog's request; the response travels back
RespondTransition ==
  /\ treq.active
  /\ TransitionStatus(treq.id, treq.status, treq.hasNote, treq.note,
                      CurrentStatus(treq.id), treq.raced,
                      [active |-> FALSE,
                       code |-> TransitionCode(treq.id, treq.status, CurrentStatus(treq.id))])

\* the callbacks of transition.mutate: onSuccess of useTransitionLoanStatus
\* invalidates the lists and the detail query, onSuccess of the dialog clears
\* its state and closes it; an error leaves everything as it is
TransitionSettled ==
  /\ ~treq.active
  /\ treq # NoRequest
  /\ treq' = NoRequest
  /\ dlg' = IF treq.code = 200
            THEN [dlg EXCEPT !.targetStatus = "", !.note = << >>, !.open = FALSE]
            ELSE dlg
  /\ queries' = IF treq.code = 200
                THEN invalidateQueries(queries, {"lists", "detail"})
                ELSE queries
  /\ UNCHANGED <<loans, analyses, clock, ereq, note, addNote, list, last>>

\* PATCH /{id}/credit-risk: the association is stored as an automatic note
\* written through append_note
CreditRiskNote(risk) == <<"[CREDIT_RISK]", " ", risk>>

\* NotFound if either id is invalid
CreditRiskCode(id, risk) ==
  IF ~Found(id) \/ risk \notin RiskCatalog THEN 404 ELSE 200

\* an association that also counts as a change of status
AssociateCreditRisk_Touch(id, risk) ==
  LET code == CreditRiskCode(id, risk)
  IN
  /\ last' = [op |-> "credit_risk", code |-> code]
  /\ IF code = 200
     THEN /\ clock < MaxClock
          /\ Cardinality(loans[id].notes) < MaxNotes
          /\ loans' = [loans EXCEPT ![id] =
                         [AddNoteRow(@, CreditRiskNote(risk), clock) EXCEPT
                            !.is_new = FALSE, !.changed_status_at = clock]]
          /\ clock' = clock + 1
     ELSE UNCHANGED <<loans, clock>>
  /\ UNCHANGED <<analyses, treq, ereq, ui, queries>>

AssociateCreditRisk(id, risk) ==
  LET code == CreditRiskCode(id, risk)
  IN
  /\ last' = [op |-> "credit_risk", code |-> code]
  /\ IF code = 200
     THEN /\ clock < MaxClock
          /\ Cardinality(loans[id].notes) < MaxNotes
          /\ loans' = [loans EXCEPT ![id] = AddNoteRow(@, CreditRiskNote(risk), clock)]
          /\ clock' = clock + 1
     ELSE UNCHANGED <<loans, clock>>
  /\ UNCHANGED <<analyses, treq, ereq, ui, queries>>

\* DELETE /{id}: soft delete
DeleteLoan(id) ==
  LET code == IF ~Found(id) THEN 404 ELSE 204
  IN
  /\ last' = [op |-> "delete", code |-> code]
  /\ loans' = IF code = 204 THEN [loans EXCEPT ![id].is_active = FALSE] ELSE loans
  /\ UNCHANGED <<analyses, clock, treq, ereq, ui, queries>>

\* ------------------------------------------- analyze_loan_with_creditflow
Decisions == {"APPROVED", "REJECTED", "MANUAL_REVIEW", "APPROVED_PENDING_REVIEW"}

\* what CreditFlowClient.analyze_loan_application can produce: a timeout or
\* a non-2xx answer (httpx.HTTPError), a body that is no JSON, a JSON body
\* that lacks a field, a complete body with a value outside the response
\* schema, or a complete body inside it
GatewayFailures == {"timeout", "non2xx", "not_json", "missing_field", "out_of_schema"}

GatewayOutcomes ==
  {[kind |-> f, decision |-> "", confidence |-> HighConfidence,
    suggested_amount |-> Null] :
     f \in {"timeout", "non2xx", "not_json", "missing_field"}} \cup
  {[kind |-> "out_of_schema", decision |-> "UNKNOWN", confidence |-> HighConfidence,
    suggested_amount |-> Null]} \cup
  {[kind |-> "ok", decision |-> d, confidence |-> HighConfidence,
    suggested_amount |-> Null] : d \in Decisions} \cup
  {[kind |-> "ok", decision |-> "MANUAL_REVIEW", confidence |-> HighConfidence,
    suggested_amount |-> SuggestedAmount]}

\* complete bodies with a confidence below the threshold of the decision
\* matrix
LowConfidenceOutcomes ==
  {[kind |-> "ok", decision |-> d, confidence |-> LowConfidence,
    suggested_amount |-> Null] : d \in {"APPROVED", "APPROVED_PENDING_REVIEW"}}

\* step 2: db.query(CreditFlowAnalysis).filter(loan_application_id == loan_id)
existing_analysis(id) == {a \in analyses : a.loan_application_id = id}

\* a table without the unique constraint
UniqueViolation_None(id) == FALSE

\* loan_application_id is unique=True
UniqueViolation(id) == \E a \in analyses : a.loan_application_id = id

\* CreditFlowAnalysisResponse.from_orm validates decision: Literal[...]
ResponseValid(row) == row.decision \in Decisions

\* step 6: status of the application after decision
RouteDecision(loan, result, now) ==
  [loan EXCEPT
    !.status =
      CASE result.decision = "APPROVED" -> "AUTO_APPROVED"
        [] result.decision = "REJECTED" -> "AUTO_REJECTED"
        [] result.decision = "MANUAL_REVIEW" -> "PENDING_SENIOR_REVIEW"
        [] result.decision = "APPROVED_PENDING_REVIEW" -> "PENDING_JUNIOR_REVIEW"
        [] OTHER -> @,
    !.approved_amount =
      IF result.decision = "APPROVED" THEN loan.requested_amount ELSE @,
    !.recommended_amount =
      IF result.decision = "MANUAL_REVIEW" /\ result.suggested_amount # Null
      THEN result.suggested_amount ELSE @,
    !.analyzed_at = now]

\* step 5: the row that stores the response
AnalysisRow(id, result, now) ==
  [loan_application_id |-> id, decision |-> result.decision,
   confidence |-> result.confidence,
   suggested_amount |-> result.suggested_amount, analyzed_at |-> now]

NoResult ==
  AnalysisRow(0, [decision |-> "", confidence |-> Null, suggested_amount |-> Null], Null)

EvaluateResponse(code, cached, kind, result) ==
  [op |-> "evaluate", code |-> code, cached |-> cached, kind |-> kind, result |-> result]

\* steps 1 to 4: look the application up, return a stored analysis, or call
\* CreditFlow and wait for its answer (code 0: no response yet)
EvaluateBegin(c, id) ==
  /\ ~ereq[c].active
  /\ IF id \notin DOMAIN loans
     THEN /\ last' = EvaluateResponse(404, FALSE, "", NoResult)
          /\ UNCHANGED ereq
     ELSE IF existing_analysis(id) # {}
     THEN LET row == CHOOSE a \in existing_analysis(id) : TRUE
          IN /\ last' = EvaluateResponse(IF ResponseValid(row) THEN 200 ELSE 500,
                                         TRUE, "", row)
             /\ UNCHANGED ereq
     ELSE /\ ereq' = [ereq EXCEPT ![c] = [active |-> TRUE, id |-> id]]
          /\ last' = EvaluateResponse(0, FALSE, "", NoResult)
  /\ UNCHANGED <<loans, analyses, clock, treq, ui, queries>>

\* the CreditFlow call of client c ends; steps 5 to 7
EvaluateEnd(c, result) ==
  LET id == ereq[c].id
      row == AnalysisRow(id, result, clock)
      commits == result.kind \in {"ok", "out_of_schema"} /\ ~UniqueViolation(id)
      code == CASE result.kind \in {"timeout", "non2xx"} -> 502
                [] result.kind \in {"not_json", "missing_field"} -> 500
                [] OTHER -> IF commits /\ ResponseValid(row) THEN 200 ELSE 500
  IN
  /\ ereq[c].active
  /\ ereq' = [ereq EXCEPT ![c] = NoRequest]
  /\ last' = EvaluateResponse(code, FALSE, result.kind, IF commits THEN row ELSE NoResult)
  /\ IF commits
     THEN /\ clock < MaxClock
          /\ analyses' = analyses \cup {row}
          /\ loans' = [loans EXCEPT ![id] = RouteDecision(@, result, clock)]
          /\ clock' = clock + 1
     ELSE UNCHANGED <<loans, analyses, clock>>
  /\ UNCHANGED <<treq, ui, queries>>

\* POST /{loan_id}/re-analyze: with force the stored analysis is deleted and
\* committed; then analyze_loan_with_creditflow(loan_id, db) is called as a
\* plain function, which binds db to background_tasks and leaves db at its
\* Depends default, so its first query raises and the caller gets a 500
re_analyze_loan(id, force) ==
  /\ analyses' = IF force THEN analyses \ existing_analysis(id) ELSE analyses
  /\ last' = [op |-> "re_analyze", code |-> 500, force |-> force]
  /\ UNCHANGED <<loans, clock, treq, ereq, ui, queries>>

\* the analysis endpoints, with two callers and every kind of answer
NextEvaluate ==
  \/ \E amount \in {RequestedAmount, LargeAmount} : CreateLoanWith(amount)
  \/ \E c \in Clients, id \in Ids : EvaluateBegin(c, id)
  \/ \E c \in Clients, result \in GatewayOutcomes \cup LowConfidenceOutcomes :
       EvaluateEnd(c, result)
  \/ \E id \in Ids, force \in BOOLEAN : re_analyze_loan(id, force)

SpecEvaluate == Init /\ [][NextEvaluate]_vars

\* what the handler gets when the client's timeout expires: httpx raises
\* TimeoutException, an httpx.HTTPError
TimeoutOutcome ==
  [kind |-> "timeout", decision |-> "", confidence |-> HighConfidence,
   suggested_amount |-> Null]

\* a client built without a timeout: the call ends only when CreditFlow
\* answers
Timeout_Never(c) == FALSE /\ EvaluateEnd(c, TimeoutOutcome)

\* httpx.AsyncClient(timeout=self.timeout): the timer of the call of client
\* c expires
Timeout(c) == EvaluateEnd(c, TimeoutOutcome)

\* CreditFlow may never answer; the timer of every call in flight runs
SpecEvaluateLive == SpecEvaluate /\ \A c \in Clients : WF_vars(Timeout(c))

\* -------------------------------------------------------------- middleware
\* request paths, cut into pieces so that the prefixes the code tests end at
\* a piece: "/login", "/loginx", "/login/new", ...
FirstSegments ==
  {"login", "api", "loans", "customers", "settings",
   "_next/static", "_next/image", "favicon.ico", "public", "reports"}

Paths ==
  {<<"/">>} \cup
  {<<"/", a>> : a \in FirstSegments} \cup
  {<<"/", a, b>> : a \in FirstSegments, b \in {"x", "s"}} \cup
  {<<"/", a, "/", b>> : a \in FirstSegments, b \in {"new", "auth"}}

\* pathname.startsWith(prefix)
startsWith(pathname, prefix) ==
  /\ Len(pathname) >= Len(prefix)
  /\ SubSeq(pathname, 1, Len(prefix)) = prefix

\* the routes of app/(dashboard)
DashboardRoutes ==
  {path \in Paths : path = <<"/">> \/ path[2] \in {"loans", "customers"}}

\* config.matcher: "/((?!_next/static|_next/image|favicon.ico|public).*)"
matcher(pathname) ==
  /\ startsWith(pathname, <<"/">>)
  /\ \A excluded \in {"_next/static", "_next/image", "favicon.ico", "public"} :
       ~startsWith(Tail(pathname), <<excluded>>)

NextResponse_next(pathname, isLoggedIn, ran) ==
  [op |-> "request", code |-> 200, pathname |-> pathname, isLoggedIn |-> isLoggedIn,
   ran |-> ran, location |-> pathname, callbackUrl |-> << >>]

NextResponse_redirect(pathname, isLoggedIn, location, callbackUrl) ==
  [op |-> "request", code |-> 307, pathname |-> pathname, isLoggedIn |-> isLoggedIn,
   ran |-> TRUE, location |-> location, callbackUrl |-> callbackUrl]

\* the middleware with the test of the login page left out of the second
\* redirect
middleware_NoAuthPage(pathname, isLoggedIn) ==
  LET isAuthPage == startsWith(pathname, <<"/", "login">>)
      isApiRoute == startsWith(pathname, <<"/", "api">>)
  IN
  IF isApiRoute THEN NextResponse_next(pathname, isLoggedIn, TRUE)
  ELSE IF isLoggedIn /\ isAuthPage
  THEN NextResponse_redirect(pathname, isLoggedIn, <<"/">>, << >>)
  ELSE IF ~isLoggedIn /\ isAuthPage
  THEN NextResponse_redirect(pathname, isLoggedIn, <<"/", "login">>, pathname)
  ELSE NextResponse_next(pathname, isLoggedIn, TRUE)

\* export default auth((req) => ...)
middleware(pathname, isLoggedIn) ==
  LET isAuthPage == startsWith(pathname, <<"/", "login">>)
      isApiRoute == startsWith(pathname, <<"/", "api">>)
  IN
  IF isApiRoute THEN NextResponse_next(pathname, isLoggedIn, TRUE)
  ELSE IF isLoggedIn /\ isAuthPage
  THEN NextResponse_redirect(pathname, isLoggedIn, <<"/">>, << >>)
  ELSE IF ~isLoggedIn /\ ~isAuthPage
  THEN NextResponse_redirect(pathname, isLoggedIn, <<"/", "login">>, pathname)
  ELSE NextResponse_next(pathname, isLoggedIn, TRUE)

\* a request of a browser: the middleware runs on the paths the matcher
\* matches, and every other request goes through
Request(pathname, isLoggedIn) ==
  /\ last' = IF matcher(pathname)
             THEN middleware(pathname, isLoggedIn)
             ELSE NextResponse_next(pathname, isLoggedIn, FALSE)
  /\ UNCHANGED <<loans, analyses, clock, treq, ereq, ui, queries>>

NextMiddleware == \E pathname \in Paths, isLoggedIn \in BOOLEAN : Request(pathname, isLoggedIn)

SpecMiddleware == Init /\ [][NextMiddleware]_vars

\* ------------------------------------------------------------- LoanFilters
\* the texts typed into the search box
SearchTexts == {<< >>, <<"7">>, <<"4", "2">>, <<"7", "x">>, <<"x">>, <<" ", "7">>}

Digits == {"0", "1", "2", "3", "4", "5", "6", "7", "8", "9"}

DigitValue(c) ==
  CASE c = "0" -> 0 [] c = "1" -> 1 [] c = "2" -> 2 [] c = "3" -> 3 [] c = "4" -> 4
    [] c = "5" -> 5 [] c = "6" -> 6 [] c = "7" -> 7 [] c = "8" -> 8 [] c = "9" -> 9

NaN == Null

\* the value of the longest prefix of digits of t, after acc
RECURSIVE ParseDigits(_, _)
ParseDigits(t, acc) ==
  IF t = << >> \/ Head(t) \notin Digits THEN acc
  ELSE ParseDigits(Tail(t), acc * 10 + DigitValue(Head(t)))

\* parseInt(text): leading whitespace is skipped, the digits that follow are
\* read, and what comes after them is ignored; NaN without a digit
parseInt(text) ==
  LET t == trimStart(text)
  IN IF t = << >> \/ Head(t) \notin Digits THEN NaN ELSE ParseDigits(t, 0)

\* the statuses of the status filter
StatusFilterValues == {"all", "approved", "rejected"}

\* the selection made last in the status filter
Selected(status) == [op |-> "filter", code |-> 200, status |-> status]

\* onChange of the search box: setSearch; when the text changes the effect
\* clears the timer and sets a new one, whose callback closes over the
\* filters of this render
setSearch(text) ==
  /\ search' = text
  /\ timer' = IF text # search THEN [pending |-> TRUE, filters |-> filters] ELSE timer
  /\ UNCHANGED <<loans, analyses, clock, treq, ereq, note, addNote, dlg, filters, queries, last>>

\* the callback of setTimeout, 400 ms after the search text last changed
TimerFires ==
  /\ timer.pending
  /\ LET customerId == parseInt(search)
     IN filters' = [timer.filters EXCEPT
                      !.customer_id = IF customerId # NaN THEN customerId ELSE Null,
                      !.page = 1]
  /\ timer' = [timer EXCEPT !.pending = FALSE]
  /\ UNCHANGED <<loans, analyses, clock, treq, ereq, note, addNote, dlg, search, queries, last>>

\* onValueChange of the status filter
handleStatusChange(value) ==
  /\ filters' = [filters EXCEPT
                   !.status = IF value = "all" THEN NoStatus ELSE value,
                   !.page = 1]
  /\ last' = Selected(IF value = "all" THEN NoStatus ELSE value)
  /\ UNCHANGED <<loans, analyses, clock, treq, ereq, note, addNote, dlg, search, timer, queries>>

\* the Reset button, rendered while a filter is active
handleReset ==
  LET hasActiveFilters == search # << >> \/ filters.status # NoStatus
      reset == [InitialFilters EXCEPT !.per_page = filters.per_page]
  IN
  /\ hasActiveFilters
  /\ search' = << >>
  /\ filters' = reset
  /\ timer' = IF search # << >> THEN [pending |-> TRUE, filters |-> reset] ELSE timer
  /\ last' = Selected(NoStatus)
  /\ UNCHANGED <<loans, analyses, clock, treq, ereq, note, addNote, dlg, queries>>

\* LoanListClient.handlePageChange
handlePageChange(page) ==
  /\ filters' = [filters EXCEPT !.page = page]
  /\ UNCHANGED <<loans, analyses, clock, treq, ereq, note, addNote, dlg, search, timer, queries, last>>

\* the list page: typing, choosing a status, paging, and the timer
NextFilters ==
  \/ \E text \in SearchTexts : setSearch(text)
  \/ TimerFires
  \/ \E value \in StatusFilterValues : handleStatusChange(value)
  \/ handleReset
  \/ \E page \in {1, 2} : handlePageChange(page)

SpecFilters == Init /\ [][NextFilters]_vars

\* -------------------------------------------- the hooks of this browser
\* useLoanApplications(filters) delivers the list
RefetchLists ==
  /\ queries' = [queries EXCEPT !.lists = [data |-> listLoans, isInvalidated |-> FALSE]]
  /\ UNCHANGED <<loans, analyses, clock, treq, ereq, ui, last>>

\* useCreateLoanApplication: POST /, then onSuccess invalidates the lists
createLoanApplication ==
  /\ LoanId \notin DOMAIN loans
  /\ clock < MaxClock
  /\ loans' = (LoanId :> NewLoan(clock))
  /\ clock' = clock + 1
  /\ last' = [op |-> "create", code |-> 201]
  /\ queries' = invalidateQueries(queries, {"lists"})
  /\ UNCHANGED <<analyses, treq, ereq, ui>>

\* useUpdateLoan: PUT /{id} with a new amount, then onSuccess invalidates
\* the lists and the detail query
updateLoan(amount) ==
  /\ LoanId \in DOMAIN loans
  /\ loans' = [loans EXCEPT ![LoanId].requested_amount = amount]
  /\ last' = [op |-> "update", code |-> 200]
  /\ queries' = invalidateQueries(queries, {"lists", "detail"})
  /\ UNCHANGED <<analyses, clock, treq, ereq, ui>>

\* LoanListClient.handleDelete with useDeleteLoan: DELETE /{id}, then
\* onSuccess invalidates the lists
handleDelete ==
  /\ LoanId \in DOMAIN loans
  /\ loans' = [loans EXCEPT ![LoanId].is_active = FALSE]
  /\ last' = [op |-> "delete", code |-> 204]
  /\ queries' = invalidateQueries(queries, {"lists"})
  /\ UNCHANGED <<analyses, clock, treq, ereq, ui>>

\* an active query that is invalidated, or has no data yet, is fetched
DetailFetchDue == queries.detail.isInvalidated \/ queries.detail.data = NoData
ListsFetchDue == queries.lists.isInvalidated \/ queries.lists.data = NoList

\* the pages of one browser: every mutation goes through its hook, and the
\* queries are fetched when they are due
NextQueries ==
  \/ createLoanApplication
  \/ DetailFetchDue /\ Refetch
  \/ ListsFetchDue /\ RefetchLists
  \/ setStatusOpen(TRUE)
  \/ \E v \in LoanStatus : setTargetStatus(v)
  \/ clock < MaxCommits /\ handleTransition
  \/ RespondTransition
  \/ TransitionSettled
  \/ setNote(<<"o", "k">>)
  \/ clock < MaxCommits /\ handleAdd
  \/ AddNoteSettled
  \/ updateLoan(SuggestedAmount)
  \/ handleDelete
  \/ clock < MaxCommits /\ EvaluateBegin("c1", LoanId)
  \/ \E result \in {r \in GatewayOutcomes : r.decision = "REJECTED" \/ r.kind = "timeout"} :
       EvaluateEnd("c1", result)

SpecQueries == Init /\ [][NextQueries]_vars

\* react-query fetches what is due
SpecQueriesLive ==
  /\ SpecQueries
  /\ WF_vars(DetailFetchDue /\ Refetch)
  /\ WF_vars(ListsFetchDue /\ RefetchLists)

Next ==
  \/ CreateLoan
  \/ \E t \in LoanStatus, n \in NoteInputs : PatchStatus(LoanId, t, n.hasNote, n.note)
  \/ \E n \in NoteInputs : PatchStatus(MissingId, "verified", n.hasNote, n.note)
  \/ \E id \in Ids, text \in ShortTexts : PostNote(id, text)
  \/ \E id \in Ids, risk \in RiskIds : AssociateCreditRisk(id, risk)
  \/ \E id \in Ids : DeleteLoan(id)
  \/ \E id \in Ids : EvaluateBegin("c1", id)
  \/ \E result \in GatewayOutcomes : EvaluateEnd("c1", result)

Spec == Init /\ [][Next]_vars

\* overlapping status requests: one stays in flight while others are handled
NextRace ==
  \/ CreateLoan
  \/ \E id \in Ids, t \in LoanStatus : PatchStatus(id, t, FALSE, << >>)
  \/ \E id \in Ids, t \in LoanStatus : SendTransition(id, t, FALSE, << >>)
  \/ HandleTransition

SpecRace == Init /\ [][NextRace]_vars

\* the workflow of one application: status requests, overlapping ones
\* included, and evaluations
NextWorkflow ==
  \/ CreateLoan
  \/ \E t \in LoanStatus : PatchStatus(LoanId, t, FALSE, << >>)
  \/ \E t \in LoanStatus : SendTransition(LoanId, t, FALSE, << >>)
  \/ HandleTransition
  \/ \E c \in Clients : EvaluateBegin(c, LoanId)
  \/ \E c \in Clients, d \in {"APPROVED", "REJECTED"} :
       EvaluateEnd(c, [kind |-> "ok", decision |-> d, confidence |-> HighConfidence,
                       suggested_amount |-> Null])

SpecWorkflow == Init /\ [][NextWorkflow]_vars

\* the StatusTransitionDialog of one user, while another user changes the
\* application
DialogNotes == {<< >>, <<" ">>}

NextDialog ==
  \/ CreateLoan
  \/ \E t \in LoanStatus : PatchStatus(LoanId, t, FALSE, << >>)
  \/ Refetch
  \/ \E open \in BOOLEAN : setStatusOpen(open)
  \/ \E v \in LoanStatus : setTargetStatus(v)
  \/ \E text \in DialogNotes : setStatusNote(text)
  \/ handleTransition
  \/ RespondTransition
  \/ TransitionSettled

SpecDialog == Init /\ [][NextDialog]_vars

\* the AddNoteDialog and the notes endpoint
NextNotes ==
  \/ CreateLoan
  \/ \E text \in Texts : setNote(text)
  \/ handleAdd
  \/ AddNoteSettled
  \/ \E id \in Ids, text \in Texts : PostNote(id, text)

SpecNotes == Init /\ [][NextNotes]_vars

\* ------------------------------------------------------------- properties
Exists == LoanId \in DOMAIN loans
Loan == loans[LoanId]
LoanAfter == loans'[LoanId]

\* this step answers a request of kind op
Handled(op) ==
  /\ last'.op = op
  /\ last'.code # 0
  /\ \/ last' # last
     \/ <<loans, analyses, clock, treq, ereq>>' # <<loans, analyses, clock, treq, ereq>>

\* the table as the specification states it
ClaimedTable ==
  { <<"received", "verified">>, <<"received", "rejected">>,
    <<"verified", "assigned">>, <<"verified", "rejected">>,
    <<"assigned", "analyzed">>, <<"assigned", "rejected">>,
    <<"analyzed", "approved">>, <<"analyzed", "rejected">>,
    <<"approved", "archived">>, <<"rejected", "archived">> }

C2_ArchivedIsTerminal ==
  [][ (Exists /\ Loan.status = "archived") =>
        /\ \A t \in LoanStatus : TransitionCode(LoanId, t, Loan.status) = 422
        /\ LoanAfter.status = "archived" ]_vars

C4_FailedTransitionChangesNothing ==
  [][ (Handled("transition") /\ last'.code # 200) =>
        /\ loans' = loans
        /\ analyses' = analyses
        /\ clock' = clock ]_vars

\* C4 witness: an approved application that has a note refused a transition
C4_Witness ==
  /\ Exists
  /\ last.op = "transition" /\ last.code = 422
  /\ Loan.approved_at # Null
  /\ Loan.notes # {}

\* C5: a successful transition to approved, rejected or archived sets the
\* flags and the timestamp of that status, and a timestamp that is set keeps
\* its value in every later step.
C5_FlagsAndTimestampsSetOnce ==
  [][ Exists =>
        /\ (Handled("transition") /\ last'.code = 200 /\ last'.prior # "none") =>
             /\ LoanAfter.status = "approved" =>
                  LoanAfter.is_approved /\ LoanAfter.is_answered
                  /\ LoanAfter.approved_at # Null
             /\ LoanAfter.status = "rejected" =>
                  LoanAfter.is_rejected /\ LoanAfter.is_answered
                  /\ LoanAfter.rejected_at # Null
             /\ LoanAfter.status = "archived" =>
                  LoanAfter.is_archived /\ LoanAfter.archived_at # Null
        /\ Loan.approved_at # Null => LoanAfter.approved_at = Loan.approved_at
        /\ Loan.rejected_at # Null => LoanAfter.rejected_at = Loan.rejected_at
        /\ Loan.archived_at # Null => LoanAfter.archived_at = Loan.archived_at ]_vars

\* C5 witness: an approved application was archived later, and both
\* timestamps are kept
C5_Witness ==
  /\ Exists
  /\ Loan.approved_at # Null
  /\ Loan.archived_at # Null
  /\ Loan.approved_at < Loan.archived_at
  /\ Loan.is_approved /\ Loan.is_answered /\ Loan.is_archived

\* the timeline of the application before and after a step
Timeline == NotesTimeline(Loan)
TimelineAfter == NotesTimeline(LoanAfter)
IsPrefix(p, q) == Len(p) <= Len(q) /\ SubSeq(q, 1, Len(p)) = p

\* C6: every step keeps the notes already in the ledger, with their text,
\* their creation time and their order, as a prefix of what list_notes
\* returns afterwards; a successful append_note on the application adds
\* exactly its text at the end, and a failed append, an evaluation and a soft
\* delete leave the ledger as it was.
C6_LedgerAppendOnly ==
  [][ Exists =>
        LET before == Timeline
            after == TimelineAfter
        IN
        /\ IsPrefix(before, after)
        /\ Len(after) <= Len(before) + 1
        /\ Len(after) = Cardinality(LoanAfter.notes)
        /\ (Handled("append_note") /\ last'.code = 201) =>
             /\ Len(after) = Len(before) + 1
             /\ after[Len(after)].note = last'.text
        /\ (Handled("append_note") /\ last'.code # 201) => after = before
        /\ (Handled("evaluate") \/ Handled("delete")) => after = before
        /\ (Handled("transition") /\ last'.code # 200) => after = before
        /\ (Handled("credit_risk") /\ last'.code # 200) => after = before ]_vars

\* C6 witness: two notes, the credit-risk note first and an appended note
\* second, listed in that order
C6_Witness ==
  /\ Exists
  /\ last.op = "append_note" /\ last.code = 201
  /\ Len(Timeline) = 2
  /\ Timeline[1].note = CreditRiskNote(1)
  /\ Timeline[2].note = <<"o", "k">>
  /\ Timeline[1].created_at < Timeline[2].created_at

AllWhitespace(text) == \A i \in 1..Len(text) : text[i] \in Whitespace

\* C7: append_note answers 422 exactly for the texts made only of whitespace
\* (the empty text included) and then changes nothing; a text with another
\* character is appended to an application that exists; and the request the
\* AddNoteDialog has in flight never carries a text made only of whitespace.
C7_BlankNoteRejected ==
  [][ /\ \A id \in Ids, text \in Texts :
           /\ (AppendNoteCode(id, text) = 422) <=> AllWhitespace(text)
           /\ (Found(id) /\ ~AllWhitespace(text)) => AppendNoteCode(id, text) = 201
      /\ Handled("append_note") =>
           /\ AllWhitespace(last'.text) => (last'.code = 422 /\ loans' = loans)
           /\ last'.code = 201 =>
                /\ ~AllWhitespace(last'.text)
                /\ Cardinality(LoanAfter.notes) = Cardinality(Loan.notes) + 1
           /\ last'.code # 201 => loans' = loans
      /\ addNote'.isPending => ~AllWhitespace(addNote'.note) ]_vars

\* C7 witness: a text of blanks was refused, the application has one note,
\* and the dialog holds a text of whitespace that it has not sent
C7_Witness ==
  /\ Exists
  /\ last.op = "append_note" /\ last.code = 422 /\ last.text = <<" ", " ", " ">>
  /\ Cardinality(Loan.notes) = 1
  /\ note = <<"\t", "\n">>
  /\ ~addNote.isPending

\* C8: an evaluation of an application that has a stored analysis answers
\* with that stored analysis, starts no call of the gateway and changes no
\* row.
C8_EvaluateIdempotent ==
  [][ /\ (Handled("evaluate") /\ last'.cached) =>
           /\ last'.code = 200
           /\ last'.result \in analyses
           /\ loans' = loans /\ analyses' = analyses /\ ereq' = ereq
      /\ \A c \in Clients :
           (~ereq[c].active /\ ereq'[c].active) => existing_analysis(ereq'[c].id) = {} ]_vars

\* C9: an evaluation whose gateway call failed (timeout, non-2xx answer,
\* malformed payload) answers with an error, stores no analysis and changes
\* no application, so that the next evaluation calls the gateway again.
C9_GatewayFailureCommitsNothing ==
  [][ (Handled("evaluate") /\ last'.kind \in GatewayFailures) =>
        /\ last'.code \in {500, 502}
        /\ loans' = loans
        /\ analyses' = analyses ]_vars

C11_RepeatedTransitionFails ==
  [][ Exists =>
        /\ Loan.status \in LoanStatus =>
             Loan.status \notin allowed_next_states(Loan.status)
        /\ (Handled("transition") /\ last'.code = 200) =>
             LoanAfter.status \notin allowed_next_states(LoanAfter.status)
        /\ (treq.active /\ ~treq'.active /\ treq.id = LoanId
            /\ treq.status = Loan.status) =>
             /\ last'.op = "transition" /\ last'.code = 422
             /\ loans' = loans /\ clock' = clock ]_vars

\* C11 witness: a request was in flight while the application went from
\* received to verified, and it was refused from verified
C11_Witness ==
  /\ Exists
  /\ last.op = "transition" /\ last.code = 422
  /\ last.raced = {"received"} /\ last.prior = "verified"
  /\ Loan.status = "verified"
  /\ ~treq.active

\* C12 as stated: the record a creation yields has status received, is_new
\* true, and is_answered, is_approved, is_rejected, is_archived and is_active
\* all false.
C12_CreatedAllOtherFlagsFalse ==
  [][ Handled("create") =>
        /\ LoanAfter.status = "received"
        /\ LoanAfter.is_new
        /\ ~LoanAfter.is_answered /\ ~LoanAfter.is_approved
        /\ ~LoanAfter.is_rejected /\ ~LoanAfter.is_archived
        /\ ~LoanAfter.is_active ]_vars

\* C12: the record a creation yields has status received, is_new and
\* is_active true, is_answered, is_approved, is_rejected and is_archived
\* false, no status timestamp, and created_at = now().
C12_CreatedRecord ==
  [][ Handled("create") =>
        /\ LoanAfter.status = "received"
        /\ LoanAfter.is_new
        /\ LoanAfter.is_active
        /\ ~LoanAfter.is_answered /\ ~LoanAfter.is_approved
        /\ ~LoanAfter.is_rejected /\ ~LoanAfter.is_archived
        /\ LoanAfter.changed_status_at = Null
        /\ LoanAfter.approved_at = Null /\ LoanAfter.rejected_at = Null
        /\ LoanAfter.archived_at = Null
        /\ LoanAfter.created_at = clock
        /\ LoanAfter.notes = {} ]_vars

\* C12 witness: the application was just created
C12_Witness ==
  /\ Exists
  /\ last.op = "create" /\ last.code = 201
  /\ Loan.status = "received" /\ Loan.is_new /\ Loan.is_active
  /\ Loan.created_at = clock - 1

C14_DialogSendsOnlyOffered ==
  [][ (treq = NoRequest /\ treq' # NoRequest) =>
        /\ treq'.status \in {nextOptions(dlg.currentStatus)[i].target :
                               i \in 1..Len(nextOptions(dlg.currentStatus))}
        /\ dlg.currentStatus # "archived" ]_vars

ApprovedStatuses == {"approved", "AUTO_APPROVED"}
RejectedStatuses == {"rejected", "AUTO_REJECTED"}
PendingReviewStatuses == {"PENDING_JUNIOR_REVIEW", "PENDING_SENIOR_REVIEW"}

\* this step stores the analysis of an evaluation
Stored == Handled("evaluate") /\ ~last'.cached /\ last'.result \in analyses' \ analyses

\* C16: after a successful evaluation the status follows the stored
\* decision: REJECTED gives a rejected status, APPROVED with a confidence at
\* or above the threshold an approved one, APPROVED below the threshold and
\* APPROVED_PENDING_REVIEW a status that waits for a human review and never
\* an approved one, MANUAL_REVIEW the status that waits for a senior review.
\* The AUTO_ names of the code count as approved and rejected.
C16_StatusFollowsDecision ==
  [][ (Stored /\ last'.code = 200) =>
        LET decision == last'.result.decision
            confidence == last'.result.confidence
        IN
        /\ decision = "REJECTED" => LoanAfter.status \in RejectedStatuses
        /\ (decision = "APPROVED" /\ confidence >= ConfidenceThreshold) =>
             LoanAfter.status \in ApprovedStatuses
        /\ (\/ decision = "APPROVED" /\ confidence < ConfidenceThreshold
            \/ decision = "APPROVED_PENDING_REVIEW") =>
             /\ LoanAfter.status \in PendingReviewStatuses
             /\ LoanAfter.status \notin ApprovedStatuses
        /\ decision = "MANUAL_REVIEW" => LoanAfter.status = "PENDING_SENIOR_REVIEW" ]_vars

\* C17: an evaluation of an application whose requested amount exceeds the
\* threshold never leaves it with an approved status and never sets an
\* approved amount, whatever the decision; an APPROVED decision sends it to
\* a review.
C17_MonetaryEscalation ==
  [][ (Stored /\ Loan.requested_amount > EscalationThreshold) =>
        /\ LoanAfter.status \notin ApprovedStatuses
        /\ LoanAfter.approved_amount = Loan.approved_amount
        /\ last'.result.decision = "APPROVED" =>
             LoanAfter.status \in PendingReviewStatuses ]_vars

\* C18: every application has at most one stored analysis in every
\* reachable state, also after two evaluations that both found none stored.
C18_AtMostOneAnalysis ==
  \A id \in Ids : Cardinality(existing_analysis(id)) <= 1

\* C18 witness: two evaluations overlapped; the first stored its analysis
\* and the second, whose gateway call succeeded too, was refused at commit
C18_Witness ==
  /\ Exists
  /\ last.op = "evaluate" /\ ~last.cached
  /\ last.kind = "ok" /\ last.code = 500 /\ last.result = NoResult
  /\ Cardinality(existing_analysis(LoanId)) = 1
  /\ \A c \in Clients : ~ereq[c].active

\* C19: a stored analysis is never modified or deleted: every row of the
\* table is in the table after every step, re-analysis included.
C19_AnalysisImmutable ==
  [][ \A a \in analyses : a \in analyses' ]_vars

\* C20: an association of a credit risk is answered 404 exactly when the
\* application or the risk does not exist, and then changes nothing; when it
\* succeeds the ledger of the application has exactly one note more, the
\* automatic note at its end, and every other field of the application,
\* status, flags and timestamps included, is as before.
C20_CreditRiskFrame ==
  [][ /\ \A id \in Ids, risk \in RiskIds :
           (CreditRiskCode(id, risk) = 404) <=>
             (id \notin DOMAIN loans \/ risk \notin RiskCatalog)
      /\ (Handled("credit_risk") /\ last'.code # 200) =>
           /\ last'.code = 404
           /\ loans' = loans /\ analyses' = analyses /\ clock' = clock
      /\ (Handled("credit_risk") /\ last'.code = 200) =>
           /\ Cardinality(LoanAfter.notes) = Cardinality(Loan.notes) + 1
           /\ \E risk \in RiskCatalog :
                TimelineAfter = Append(Timeline,
                  [note |-> CreditRiskNote(risk), created_at |-> clock])
           /\ [LoanAfter EXCEPT !.notes = Loan.notes] = Loan
           /\ analyses' = analyses ]_vars

\* C20 witness: a risk was associated with an approved application, whose
\* ledger ends with the automatic note
C20_Witness ==
  /\ Exists
  /\ last.op = "credit_risk" /\ last.code = 200
  /\ Loan.status = "approved" /\ Loan.is_approved /\ Loan.approved_at # Null
  /\ Len(Timeline) = 1
  /\ Timeline[1].note = CreditRiskNote(1)

TableName(status) ==
  CASE status = "AUTO_APPROVED" -> "approved"
    [] status = "AUTO_REJECTED" -> "rejected"
    [] OTHER -> status

\* C22: every step that changes the status of the application, whether it
\* answers a transition request or an evaluation, also one that overlaps a
\* transition, goes from a status s to a status in allowed_next_states(s);
\* and an evaluation of an application that is received, verified or
\* assigned never leaves it approved.
C22_ExecutorIsOnlyWriter ==
  [][ (Exists /\ LoanAfter.status # Loan.status) =>
        /\ TableName(LoanAfter.status) \in allowed_next_states(TableName(Loan.status))
        /\ (Handled("evaluate") /\ Loan.status \in {"received", "verified", "assigned"}) =>
             TableName(LoanAfter.status) # "approved" ]_vars

\* C23: in every reachable state the status of the application is one of
\* the seven values of LoanStatus.
C23_StatusInEnumeration ==
  Exists => Loan.status \in LoanStatus

\* C24: every note in the ledger of the application has a text that is not
\* empty after trimming whitespace, whether append_note, the note of a
\* status transition or the system wrote it.
C24_EveryNoteNonBlank ==
  Exists => \A n \in Loan.notes : trim(n.note) # << >>

\* C25: is_new is true and changed_status_at is unset exactly as long as
\* the application has made no transition, plain or triggered by a scoring
\* result: every step that changes the status, as every successful
\* transition request does, sets is_new to false and changed_status_at to
\* now(),
\* is_new never becomes true again, and every other step (a failed
\* transition, append_note, a credit-risk association, a failed evaluation)
\* leaves both fields as they were.
C25_NewUntilFirstTransition ==
  [][ Exists =>
        LET transitioned == LoanAfter.status # Loan.status
        IN
        /\ (Handled("transition") /\ last'.code = 200 /\ clock' # clock) => transitioned
        /\ transitioned =>
             ~LoanAfter.is_new /\ LoanAfter.changed_status_at = clock
        /\ ~transitioned =>
             /\ LoanAfter.is_new = Loan.is_new
             /\ LoanAfter.changed_status_at = Loan.changed_status_at
        /\ ~Loan.is_new => ~LoanAfter.is_new
        /\ LoanAfter.is_new <=> (LoanAfter.changed_status_at = Null)
        /\ LoanAfter.is_new => LoanAfter.status = "received" ]_vars

\* the targets the Select of the dialog offers for status s
Offered(s) == {nextOptions(s)[i].target : i \in 1..Len(nextOptions(s))}

\* the next states of s in the table as the specification states it
Stated(s) == {t \in LoanStatus : <<s, t>> \in ClaimedTable}

C27_FlagsFollowStatus ==
  Exists =>
    /\ Loan.is_archived <=> (Loan.status = "archived")
    /\ Loan.is_approved => TableName(Loan.status) \in {"approved", "archived"}
    /\ Loan.is_rejected => TableName(Loan.status) \in {"rejected", "archived"}
    /\ Loan.is_answered <=> (Loan.is_approved \/ Loan.is_rejected)
    /\ ~(Loan.is_approved /\ Loan.is_rejected)

\* the position of a status on the longest path of the table; a status
\* outside the enumeration has no way out and counts as the end
Rank(status) ==
  CASE status = "received" -> 0
    [] status = "verified" -> 1
    [] status = "assigned" -> 2
    [] status = "analyzed" -> 3
    [] status \in {"approved", "rejected"} -> 4
    [] OTHER -> 5

\* the number of transition requests that have succeeded: every commit
\* reads now() once, the creation is one commit and every stored analysis
\* another
Transitions == clock - 1 - Cardinality(analyses)

C29_NoSelectionLost ==
  [][ /\ ~timer'.pending =>
           /\ filters'.customer_id =
                IF parseInt(search') # NaN THEN parseInt(search') ELSE Null
           /\ last'.op = "filter" => filters'.status = last'.status
      /\ (filters'.status # filters.status \/ filters'.customer_id # filters.customer_id) =>
           filters'.page = 1 ]_vars

\* no mutation of the browser is in flight
Quiescent ==
  /\ treq = NoRequest
  /\ ~addNote.isPending
  /\ \A c \in Clients : ~ereq[c].active

\* C30: once the mutations of the browser have settled, a detail query
\* whose data differs from the application on the server is invalidated, and
\* so is a list query whose rows differ from it; and the detail page
\* eventually shows the status and the notes the server has.
C30_PagesNeverStale ==
  /\ [](Exists /\ Quiescent =>
          /\ (queries.detail.data # NoData /\ queries.detail.data # getById(LoanId)) =>
               queries.detail.isInvalidated
          /\ (queries.lists.data # NoList /\ queries.lists.data # listLoans) =>
               queries.lists.isInvalidated)
  /\ Exists ~> (Exists /\ queries.detail.data = getById(LoanId))
====
